---- MODULE Spec2Model ----
(***************************************************************************)
(* Bloom-filter tagging of a transaction (crypto-tss-rsa/BloomFilter.cpp)  *)
(* and the digest check of examples/example.cpp.                           *)
(*                                                                         *)
(* A std::string is a sequence of bytes.  A byte is a record [c, of]: c is *)
(* the character code and `of` is empty for ordinary characters.  SHA256   *)
(* is taken as an ideal (collision-free) digest: its 32 output bytes are   *)
(* numbered by c and the first one carries the hashed message in `of`, so  *)
(* two digests are equal exactly when the hashed messages are equal.       *)
(* A std::bitset<M> is a function from bit position 0..M-1 to BOOLEAN.     *)
(***************************************************************************)
EXTENDS Integers, Sequences, FiniteSets

(* ---------------------------------------------------------------- bounds *)
\* longest identity string (json_str) the driver passes to update
MaxIdLen == 1
\* longest transaction.data before any filter is appended
MaxPrefixLen == 3
\* short-data run: longest transaction.data, and the number of calls made
MaxDataLen == 48
MaxShortCalls == 2
\* number of calls the driver makes on one transaction
MaxCalls == 3
\* number of update calls before a payload is handed to the verifier
MaxAuthUpdates == 2
\* parallel run: number of times the processor changes thread
MaxSwitches == 2

(* ------------------------------------------------------ program constants *)
\* Size of the bloom filter
M == 48
\* Number of hash functions
K == 17
SHA256_DIGEST_LENGTH == 32

\* size_t arithmetic is modulo SizeMod.  The value stands for 2^64; it only
\* has to exceed every string length plus M + SHA256_DIGEST_LENGTH.
SizeMod == 1073741824
npos == SizeMod - 1

\* std::hash<std::string> is implementation defined: a deterministic,
\* seedless string hash into size_t.  It is taken here as a multiplicative
\* string hash of reduced width.
HashSeed == 40503
HashMult == 1031
HashMod == 1000003

(* ---------------------------------------------------------------- strings *)
Ch(n) == [c |-> n, of |-> <<>>]
Zero == Ch(48)
One == Ch(49)

Rep(ch, n) == [j \in 1..n |-> ch]

IdChars == {Ch(65), Ch(66)}
Identities == UNION {[1..n -> IdChars] : n \in 0..MaxIdLen}

PrefixChars == {Ch(88), One}
Prefixes == {Rep(ch, n) : ch \in PrefixChars, n \in 0..MaxPrefixLen}
AuthPrefixes == {p \in Prefixes : Len(p) <= 1}
ShortData == {Rep(ch, n) : ch \in PrefixChars, n \in 0..MaxDataLen}

\* std::to_string(int) for i >= 0: the decimal text of i
RECURSIVE to_string(_)
to_string(i) ==
    IF i < 10 THEN <<Ch(48 + i)>>
    ELSE to_string(i \div 10) \o <<Ch(48 + (i % 10))>>

HashStep(h, ch) == (h * HashMult + ch.c) % HashMod

RECURSIVE HashFold(_, _)
HashFold(h, s) ==
    IF s = <<>> THEN h ELSE HashFold(HashStep(h, Head(s)), Tail(s))

\* std::hash<std::string>()(s)
StdHash(s) == HashFold(HashSeed, s)

SizeSubSaturating(a, b) == IF a < b THEN 0 ELSE a - b

\* a - b on size_t
SizeSub(a, b) == (a - b) % SizeMod

Min(a, b) == IF a < b THEN a ELSE b

\* std::string::substr(pos, n); the caller has checked pos <= size
Substr(s, pos, n) == SubSeq(s, pos + 1, pos + Min(n, Len(s) - pos))

(* ----------------------------------------------------------------- bitset *)
EmptyBitset == [p \in 0..(M - 1) |-> FALSE]

BitsetFlip(b, pos) == [b EXCEPT ![pos] = ~b[pos]]

\* std::bitset<M>::set(pos)
BitsetSet(b, pos) == [b EXCEPT ![pos] = TRUE]

\* std::bitset<M>::to_string(): most significant bit first
BitsetToString(b) == [j \in 1..M |-> IF b[M - j] THEN One ELSE Zero]

\* std::bitset<M>(const std::string &): the last character is bit 0
ValidBitString(s) == \A j \in 1..Len(s) : s[j] \in {Zero, One}
BitsetFromString(s) ==
    LET n == Min(Len(s), M)
    IN  [p \in 0..(M - 1) |-> p < n /\ s[n - p] = One]

(* ----------------------------------------------------- update_bloom_filter *)
\* hash_indices[i] = std::hash<std::string>()(std::to_string(i) + json_str) % M
HashIndex(i, json_str) == StdHash(to_string(i) \o json_str) % M

ComputeIndicesAccum(h, json_str) ==
    [i \in 0..(K - 1) |-> (h[i] + HashIndex(i, json_str)) % M]

\* first loop: every slot of the shared buffer is overwritten
ComputeIndices(h, json_str) ==
    [i \in 0..(K - 1) |-> HashIndex(i, json_str)]

RECURSIVE SetFrom(_, _, _, _)
SetFrom(b, h, j, n) ==
    IF j >= n THEN b ELSE SetFrom(BitsetSet(b, h[j]), h, j + 1, n)

ApplyIndicesShort(b, h) == SetFrom(b, h, 0, K - 1)

ApplyIndicesFresh(b, h) == SetFrom(EmptyBitset, h, 0, K)

\* second loop: for (int index : hash_indices) bloom_filter.set(index)
ApplyIndices(b, h) == SetFrom(b, h, 0, K)

(* ---------------------------------------------------- extract_bloom_filter *)
Ok(v) == [kind |-> "ok", val |-> v]
Threw(e, v) == [kind |-> e, val |-> v]

ExtractNarrow(d, width) ==
    LET pos == SizeSub(Len(d), width - 1)
    IN  IF pos > Len(d) THEN Threw("out_of_range", <<>>)
        ELSE Ok(Substr(d, pos, Len(d)))

\* data.substr(data.size() - bloom_filter.size(), data.size())
ExtractBloomFilter(d, width) ==
    LET pos == SizeSub(Len(d), width)
    IN  IF pos > Len(d) THEN Threw("out_of_range", <<>>)
        ELSE Ok(Substr(d, pos, Len(d)))

(* ------------------------------------------------------------ example.cpp *)
\* SHA256(msg, len, digest): ideal digest of SHA256_DIGEST_LENGTH bytes
SHA256(msg) ==
    [k \in 1..SHA256_DIGEST_LENGTH |->
        [c |-> k, of |-> IF k = 1 THEN <<msg>> ELSE <<>>]]

\* std::string hash(const std::bitset<M> &bloom_filter)
Hash(b) == SHA256(BitsetToString(b))

NoCheckExtract(t) ==
    LET size == Len(t)
        pos == SizeSub(SizeSub(size, SHA256_DIGEST_LENGTH), M \div 8)
    IN  IF pos > size THEN Threw("out_of_range", EmptyBitset)
        ELSE Ok(BitsetFromString(Substr(t, pos, M \div 8)))

\* std::bitset<M> extract_bloom_filter_from_transaction(transaction_data)
ExtractBloomFilterFromTransaction(t) ==
    LET size == Len(t)
        hashPos == SizeSub(size, SHA256_DIGEST_LENGTH)
    IN  IF hashPos > size THEN Threw("out_of_range", EmptyBitset)
        ELSE
        LET bloom_hash == Substr(t, hashPos, npos)
            computed_hash_str == SHA256(bloom_hash)
            strPos == SizeSub(SizeSub(size, SHA256_DIGEST_LENGTH), M \div 8)
        IN  IF strPos > size THEN Threw("out_of_range", EmptyBitset)
            ELSE
            LET bloom_str == Substr(t, strPos, M \div 8)
            IN  IF ~ValidBitString(bloom_str)
                THEN Threw("invalid_argument", EmptyBitset)
                ELSE
                LET bf == BitsetFromString(bloom_str)
                    bloom_hash_str == Hash(bf)
                IN  IF computed_hash_str = bloom_hash_str
                    THEN Ok(bf)
                    ELSE Threw("runtime_error", EmptyBitset)

(* ------------------------------------------------------------------ state *)
Threads == {1, 2}

VARIABLES
    bloom_filter,   \* Transaction::bloom_filter
    data,           \* Transaction::data
    hash_indices,   \* the global std::vector<int> hash_indices(K)
    ret,            \* what the last extract_bloom_filter call returned or threw
    log,            \* the calls the driver has made on the transaction so far
    txin,           \* transaction_data handed to the verifier
    vret,           \* what extract_bloom_filter_from_transaction returned or threw
    tx,             \* parallel run: the bloom_filter of each thread's transaction
    arg,            \* parallel run: the json_str of each thread's call
    pc,             \* parallel run: the loop each thread is in
    idx,            \* parallel run: each thread's loop position
    running,        \* parallel run: the thread that took the last step
    switches        \* parallel run: how often the running thread changed

vars == <<bloom_filter, data, hash_indices, ret, log, txin, vret,
          tx, arg, pc, idx, running, switches>>

seqVars == <<bloom_filter, data, ret, log>>
authVars == <<txin, vret>>
parVars == <<tx, arg, pc, idx, running, switches>>

Call(op, a) == [op |-> op, arg |-> a]

NoRet == [kind |-> "none", val |-> <<>>]
NoVret == [kind |-> "none", val |-> EmptyBitset]

\* a default-constructed Transaction and the zero-filled index buffer
InitTransaction ==
    /\ bloom_filter = EmptyBitset
    /\ hash_indices = [i \in 0..(K - 1) |-> 0]
    /\ ret = NoRet
    /\ log = <<>>

InitIdle ==
    /\ txin = <<>>
    /\ vret = NoVret
    /\ tx = [t \in Threads |-> EmptyBitset]
    /\ arg = [t \in Threads |-> <<>>]
    /\ pc = [t \in Threads |-> "idle"]
    /\ idx = [t \in Threads |-> 0]
    /\ running = 0
    /\ switches = 0

Init ==
    /\ InitTransaction
    /\ data \in Prefixes
    /\ InitIdle

\* safeheron::tss_rsa::update_bloom_filter(transaction, json_str)
UpdateBloomFilter(json_str) ==
    /\ hash_indices' = ComputeIndices(hash_indices, json_str)
    /\ bloom_filter' = ApplyIndices(bloom_filter, hash_indices')
    /\ log' = Append(log, Call("update", json_str))
    /\ UNCHANGED <<data, ret>>

\* The driver's calls; it makes at most `limit` of them on the transaction.
Update(limit, json_str) ==
    /\ Len(log) < limit
    /\ UpdateBloomFilter(json_str)
    /\ UNCHANGED <<authVars, parVars>>

\* transaction.data += transaction.bloom_filter.to_string()
Tag(limit) ==
    /\ Len(log) < limit
    /\ data' = data \o BitsetToString(bloom_filter)
    /\ log' = Append(log, Call("tag", <<>>))
    /\ UNCHANGED <<bloom_filter, hash_indices, ret, authVars, parVars>>

\* safeheron::tss_rsa::extract_bloom_filter(transaction)
Extract(limit) ==
    /\ Len(log) < limit
    /\ ret' = ExtractBloomFilter(data, M)
    /\ log' = Append(log, Call("extract", <<>>))
    /\ UNCHANGED <<bloom_filter, data, hash_indices, authVars, parVars>>

Next ==
    \/ \E s \in Identities : Update(MaxCalls, s)
    \/ Tag(MaxCalls)
    \/ Extract(MaxCalls)

Spec == Init /\ [][Next]_vars

(* ------------------------------------ data of every short length (SpecShort) *)
InitShort ==
    /\ InitTransaction
    /\ data \in ShortData
    /\ InitIdle

NextShort ==
    \/ \E s \in Identities : Update(MaxShortCalls, s)
    \/ Tag(MaxShortCalls)
    \/ Extract(MaxShortCalls)

SpecShort == InitShort /\ [][NextShort]_vars

(* ------------------------------------------------- one transaction (Spec) *)
Last(q) == q[Len(q)]
Called(op) == log # <<>> /\ Last(log).op = op
Tagged == \E k \in 1..Len(log) : log[k].op = "tag"
BitsOf(b) == {p \in 0..(M - 1) : b[p]}
Suffix(d) == SubSeq(d, Len(d) - M + 1, Len(d))

\* C1: update_bloom_filter(f, s) leaves f OR-ed with exactly the positions
\* hash(decimal(i) ++ s) mod M for 0 <= i < K: each of them is set and no
\* other position changes.
C1_UpdateSetsExactlyTheIndices ==
    [][\A s \in Identities :
          log' = Append(log, Call("update", s)) =>
              bloom_filter' =
                  [p \in 0..(M - 1) |->
                      \/ bloom_filter[p]
                      \/ \E i \in 0..(K - 1) :
                            StdHash(to_string(i) \o s) % M = p]]_vars

\* an update of the all-zero filter whose K indices collide
C1_Witness ==
    /\ Len(log) = 1
    /\ log[1].op = "update"
    /\ BitsOf(bloom_filter) # {}
    /\ Cardinality(BitsOf(bloom_filter)) < K

\* C2: over update, tag and extract the filter keeps width M and a bit that
\* is set stays set.
C2_WidthFixedBitsNeverCleared ==
    [][/\ DOMAIN bloom_filter = 0..(M - 1)
       /\ DOMAIN bloom_filter' = 0..(M - 1)
       /\ \A p \in 0..(M - 1) : bloom_filter[p] => bloom_filter'[p]]_vars

\* two different identities folded in, then tagged
C2_Witness ==
    /\ Len(log) >= 3
    /\ log[1].op = "update" /\ log[2].op = "update"
    /\ log[1].arg # log[2].arg
    /\ Called("tag")
    /\ Cardinality(BitsOf(bloom_filter)) > K

\* C3: after data = prefix ++ render(filter), extract_bloom_filter returns
\* the trailing M characters of data, and they are render(filter): M
\* characters, '1' or '0' per bit, most significant bit first.
C3_DigestFreeRoundTrip ==
    [][(Called("tag") /\ log' = Append(log, Call("extract", <<>>))) =>
          /\ ret'.kind = "ok"
          /\ Len(ret'.val) = M
          /\ ret'.val = Suffix(data)
          /\ \A j \in 1..M :
                ret'.val[j] = IF bloom_filter[M - j] THEN One ELSE Zero]_vars

C3_Witness ==
    /\ Len(log) = 3
    /\ log[1].op = "update" /\ log[2].op = "tag" /\ log[3].op = "extract"
    /\ Len(data) > M
    /\ ret.kind = "ok"
    /\ One \in {ret.val[j] : j \in 1..M}

\* C7: on data shorter than M characters extract_bloom_filter fails and
\* returns no string, and the transaction is left as it was.
C7_ShortDataThrows ==
    [][(Len(data) < M /\ log' = Append(log, Call("extract", <<>>))) =>
          /\ ret'.kind = "out_of_range"
          /\ ret'.val = <<>>
          /\ data' = data
          /\ bloom_filter' = bloom_filter]_vars

\* a filter with bits set, M - 1 characters of data, then extract
C7_Witness ==
    /\ Len(log) = 2
    /\ log[1].op = "update" /\ log[2].op = "extract"
    /\ Len(data) = M - 1
    /\ ret.kind = "out_of_range"

\* C9: update with the same identity twice in a row leaves the filter as
\* it was after the first.
C9_UpdateIdempotent ==
    [][\A s \in Identities :
          (Called("update") /\ Last(log).arg = s
              /\ log' = Append(log, Call("update", s))) =>
                  bloom_filter' = bloom_filter]_vars

C9_Witness ==
    /\ Len(log) >= 2
    /\ log[Len(log)].op = "update" /\ log[Len(log) - 1].op = "update"
    /\ log[Len(log)].arg = log[Len(log) - 1].arg
    /\ BitsOf(bloom_filter) # {}

\* C10 as stated: in every state after tagging, the trailing M characters
\* extract_bloom_filter returns are render of the current filter.
C10_FrozenAfterTagging ==
    Tagged => ExtractBloomFilter(data, M) = Ok(BitsetToString(bloom_filter))

LastTag == CHOOSE k \in 1..Len(log) :
               /\ log[k].op = "tag"
               /\ \A j \in (k + 1)..Len(log) : log[j].op # "tag"
UpdatedSinceTag == \E j \in (LastTag + 1)..Len(log) : log[j].op = "update"

\* C10 amended: after tagging, extract_bloom_filter returns M characters of
\* '0'/'1' in which every '1' is a bit set in the current filter, and which
\* are render of the current filter as long as no update followed the
\* latest tagging.
C10_SuffixIsFilterAtTagging ==
    Tagged =>
        LET r == ExtractBloomFilter(data, M)
        IN  /\ r.kind = "ok"
            /\ Len(r.val) = M
            /\ \A j \in 1..M :
                  /\ r.val[j] \in {Zero, One}
                  /\ r.val[j] = One => bloom_filter[M - j]
            /\ ~UpdatedSinceTag => r.val = BitsetToString(bloom_filter)

\* tagged, then a further identity folded in, then extracted
C10_Witness ==
    /\ Tagged
    /\ UpdatedSinceTag
    /\ Called("extract")
    /\ ret.kind = "ok"
    /\ ret.val # BitsetToString(bloom_filter)

(* ------------------------------------------- payload verifier (SpecAuth) *)
\* payload ++ render(filter) ++ SHA256(SHA256(render(filter)))
AuthenticatedPayload(d, b) == d \o BitsetToString(b) \o SHA256(Hash(b))

FlipChar(t, j) == [t EXCEPT ![j] = IF @ = One THEN Zero ELSE One]

AuthLen == M + SHA256_DIGEST_LENGTH

InitAuth ==
    /\ InitTransaction
    /\ data \in AuthPrefixes
    /\ InitIdle

AuthUpdate(json_str) ==
    /\ vret = NoVret
    /\ Update(MaxAuthUpdates, json_str)

\* extract_bloom_filter_from_transaction(transaction_data): read-only; the
\* finished transaction is handed over and checked once
Verify(transaction_data) ==
    /\ vret = NoVret
    /\ txin' = transaction_data
    /\ vret' = ExtractBloomFilterFromTransaction(transaction_data)
    /\ UNCHANGED <<seqVars, hash_indices, parVars>>

VerifyAuthentic == Verify(AuthenticatedPayload(data, bloom_filter))

\* one character of the embedded filter region changed, digest untouched
VerifyTampered ==
    \E j \in 1..M :
        Verify(FlipChar(AuthenticatedPayload(data, bloom_filter),
                        Len(data) + j))

\* only the last n, or only the first n, bytes of the payload arrive
VerifyTruncated ==
    \E n \in 0..(AuthLen - 1) :
        LET t == AuthenticatedPayload(data, bloom_filter)
        IN  \/ Verify(SubSeq(t, Len(t) - n + 1, Len(t)))
            \/ Verify(SubSeq(t, 1, n))

NextAuth ==
    \/ \E s \in Identities : AuthUpdate(s)
    \/ VerifyAuthentic
    \/ VerifyTampered
    \/ VerifyTruncated

SpecAuth == InitAuth /\ [][NextAuth]_vars

Verified == vret.kind # "none"
Region(t) == SubSeq(t, Len(t) - AuthLen + 1, Len(t) - SHA256_DIGEST_LENGTH)
Digest(t) == SubSeq(t, Len(t) - SHA256_DIGEST_LENGTH + 1, Len(t))
FilterOf(region) == [p \in 0..(M - 1) |-> region[M - p] = One]

IsAuthentic(t) ==
    /\ Len(t) >= AuthLen
    /\ ValidBitString(Region(t))
    /\ Digest(t) = SHA256(SHA256(Region(t)))

IsTampered(t) ==
    /\ Len(t) >= AuthLen
    /\ \E j \in 1..M : IsAuthentic(FlipChar(t, Len(t) - AuthLen + j))

\* C4: a payload ending in render(f) ++ SHA256(SHA256(render(f))) is
\* accepted by extract_bloom_filter_from_transaction, which returns f.
C4_AuthenticatedRoundTrip ==
    (Verified /\ IsAuthentic(txin)) => vret = Ok(FilterOf(Region(txin)))

\* C5: a payload whose filter region differs in one character from the one
\* its digest was made for is rejected with the hash-mismatch error.
C5_TamperDetected ==
    (Verified /\ IsTampered(txin)) => vret.kind = "runtime_error"

C5_Witness ==
    /\ Verified
    /\ IsTampered(txin)
    /\ Len(txin) > AuthLen
    /\ One \in {Region(txin)[j] : j \in 1..M}
    /\ vret.kind = "runtime_error"

\* C6: a payload shorter than M + 32 bytes is rejected as too short, before
\* anything is sliced out of it or compared.
C6_TruncatedRejected ==
    (Verified /\ Len(txin) < AuthLen) => vret.kind = "out_of_range"

(* ------------------------------- two transactions in parallel (SpecPar) *)
\* Two threads each call update_bloom_filter on a transaction of their own.
\* Both calls go through the one global hash_indices buffer; its element
\* reads and writes are interleaved in every order that changes the running
\* thread at most MaxSwitches times.
InitPar ==
    /\ InitTransaction
    /\ data = <<>>
    /\ txin = <<>>
    /\ vret = NoVret
    /\ tx = [t \in Threads |-> EmptyBitset]
    /\ arg \in [Threads -> Identities]
    /\ pc = [t \in Threads |-> "compute"]
    /\ idx = [t \in Threads |-> 0]
    /\ running = 0
    /\ switches = 0

Schedule(t) ==
    /\ running \notin {0, t} => switches < MaxSwitches
    /\ running' = t
    /\ switches' = IF running \in {0, t} THEN switches ELSE switches + 1

Advance(t, then) ==
    IF idx[t] + 1 < K
    THEN /\ idx' = [idx EXCEPT ![t] = @ + 1]
         /\ pc' = pc
    ELSE /\ idx' = [idx EXCEPT ![t] = 0]
         /\ pc' = [pc EXCEPT ![t] = then]

\* one round of: for (int i = 0; i < K; i++) hash_indices[i] = ... % M
ComputeStep(t) ==
    /\ pc[t] = "compute"
    /\ Schedule(t)
    /\ hash_indices' =
           [hash_indices EXCEPT ![idx[t]] = HashIndex(idx[t], arg[t])]
    /\ Advance(t, "apply")
    /\ UNCHANGED <<tx, arg, seqVars, authVars>>

\* one round of: for (int index : hash_indices) bloom_filter.set(index)
ApplyStep(t) ==
    /\ pc[t] = "apply"
    /\ Schedule(t)
    /\ tx' = [tx EXCEPT ![t] = BitsetSet(@, hash_indices[idx[t]])]
    /\ Advance(t, "done")
    /\ UNCHANGED <<hash_indices, arg, seqVars, authVars>>

NextPar ==
    \/ \E t \in Threads : ComputeStep(t)
    \/ \E t \in Threads : ApplyStep(t)

SpecPar == InitPar /\ [][NextPar]_vars

\* C8: when both parallel updates have returned, each transaction's filter
\* is its old (all-zero) state OR-ed with exactly the K indices of its own
\* identity, as if the two calls had run one after the other.
C8_ParallelUpdatesIndependent ==
    (\A t \in Threads : pc[t] = "done") =>
        \A t \in Threads :
            tx[t] = [p \in 0..(M - 1) |->
                        \E i \in 0..(K - 1) : HashIndex(i, arg[t]) = p]

====
